---- MODULE Spec2Model ----
(***************************************************************************)
(* Model of the parameter-inference branch of run() in                     *)
(* MEA_package/ProgramFiles/runprogram.py (lines 181-246).                 *)
(*                                                                         *)
(* Python lists are objects: all_params, restart_results and               *)
(* initcond_full hold references.  Reference ParsedRef denotes the list    *)
(* objects returned by paramtime (param, initcond); reference j >= 1       *)
(* denotes the j-th pair of slices made at line 213.                       *)
(* The collaborators paramtime, hypercube, ParameterInference and          *)
(* write_inference_results are not part of the driver: their outcomes are  *)
(* nondeterministic choices, their calls are recorded.                     *)
(***************************************************************************)
EXTENDS Integers, Sequences, FiniteSets, TLC

\* ---- bounds of the model ----
MaxRestart == 2      \* largest --nRestart value tried
MaxEq == 2           \* largest number_of_equations / initial-condition count
MaxParams == 1       \* largest number of kinetic parameters
MaxObj == 2          \* largest finite objective value
MaxTsvLines == 1     \* most lines of a compared simulation output
MaxTsvCols == 2      \* most tab-separated columns of a line

\* float('inf') as an objective value: above every finite objective
Inf == MaxObj + 1
ObjVals == 0..Inf
Finite(o) == o <= MaxObj

\* the list objects returned by paramtime (line 205), as a reference
ParsedRef == 0

TpFiles == {"paramtime.txt", "p53.txt"}
ICBases == {10, 20}
SampleOffsets == {0, 1}
\* --pdf argument (line 114); "" stands for the falsy default of line 79
PdfArgs == {"", "gamma", "bogus"}
\* the methods the program documents (lines 49, 115, 231)
RecognisedMethods == {"sum_of_squares", "gamma", "normal", "lognormal", "maxent"}
NRestartArgs == {[int |-> FALSE, val |-> 0]} \cup
                {[int |-> TRUE, val |-> v] : v \in (0 - 1)..MaxRestart}

VARIABLES
    pc,                    \* position in run(): configured, parsed, loop, ranked, done, exit, crash
    restart,               \* --restart flag (line 110)
    nRestart,              \* --nRestart argument (line 111): [int, val]
    tpfile,                \* --timeparam argument (line 99)
    distribution,          \* --pdf argument (lines 79, 114)
    number_of_equations,   \* problem.number_of_equations (line 200)
    observed_trajectories, \* line 202
    param, initcond, vary, varyic, limits,   \* returned by paramtime (line 205)
    parsed,                \* history: the values paramtime returned
    slices,                \* the list objects made at line 213: slices[j] = [p, ic]
    all_params,            \* sequence of <<param ref, initcond ref>>
    idx,                   \* position of the for loop of line 218 in all_params
    initcond_full,         \* <<>> while the name is unbound, else <<ref>>
    restart_results,       \* sequence of <<result, observed, param ref, initcond ref>>
    hypercube_calls,       \* history of calls of hypercube
    optimiser_calls,       \* history of ParameterInference(...).infer() invocations
    writer_calls,          \* history of calls of write_inference_results
    log,                   \* history: order of sample / optimise / sort / write
    printed,               \* messages printed by the driver
    exit_status,           \* <<>> while running, else <<status>>
    harness                \* regression_tests.py: one simulation test of main()

vars == <<pc, restart, nRestart, tpfile, distribution, number_of_equations, observed_trajectories,
          param, initcond, vary, varyic, limits, parsed, slices, all_params, idx,
          initcond_full, restart_results, hypercube_calls, optimiser_calls,
          writer_calls, log, printed, exit_status, harness>>

\* what no step of run() writes: its arguments and loaded data (and the
\* regression harness, which is a separate program)
config == <<restart, nRestart, tpfile, distribution, number_of_equations,
            observed_trajectories, harness>>
inputs == <<param, initcond, vary, varyic, limits, parsed>>

\* ---- Python helpers ----
Min(a, b) == IF a <= b THEN a ELSE b

\* [x] * n   (the empty list when n <= 0)
Repeat(x, n) == [i \in 1..n |-> x]

\* variant: one padding entry too few
PadList_short(l, x, diff) == l \o Repeat(x, diff - 1)

\* l += [x] * diff  (lines 224, 226): the new contents of the list object
PadList(l, x, diff) == l \o Repeat(x, diff)

\* zip(a, b) (lines 228, 229): truncates to the shorter argument
Zip(a, b) == [i \in 1..Min(Len(a), Len(b)) |-> <<a[i], b[i]>>]

\* x[:len(param)], x[len(param):]  (line 213)
SplitPoint(x, np) == [p |-> SubSeq(x, 1, Min(np, Len(x))),
                      ic |-> SubSeq(x, np + 1, Len(x))]

\* key=lambda x: x[0][1]  (line 241), 1-based
SortKey(entry) == entry[1][2]

\* variant: an entry is placed before the entries of equal key (not stable)
RECURSIVE InsertStable_unstable(_, _)
InsertStable_unstable(sorted, x) ==
    IF sorted = <<>> THEN <<x>>
    ELSE IF SortKey(Head(sorted)) < SortKey(x)
         THEN <<Head(sorted)>> \o InsertStable_unstable(Tail(sorted), x)
         ELSE <<x>> \o sorted

\* list.sort(key=..., reverse=False): ascending, stable
RECURSIVE InsertStable(_, _)
InsertStable(sorted, x) ==
    IF sorted = <<>> THEN <<x>>
    ELSE IF SortKey(Head(sorted)) <= SortKey(x)
         THEN <<Head(sorted)>> \o InsertStable(Tail(sorted), x)
         ELSE <<x>> \o sorted

RECURSIVE SortByObjective(_)
SortByObjective(rs) ==
    IF rs = <<>> THEN <<>>
    ELSE InsertStable(SortByObjective(SubSeq(rs, 1, Len(rs) - 1)), rs[Len(rs)])

\* the list object a reference denotes
DerefParam(ref) == IF ref = ParsedRef THEN param ELSE slices[ref].p
DerefInitcond(ref) == IF ref = ParsedRef THEN initcond ELSE slices[ref].ic

NoParse == [outcome |-> "pending", param |-> <<>>, initcond |-> <<>>, vary |-> <<>>,
            varyic |-> <<>>, limits |-> <<>>]

\* the experimental data returned by parse_experimental_data_file (line 202)
ObservedData == <<4, 5>>

\* the regression harness is not running
HarnessIdle == [pc |-> "idle", test |-> "", output |-> <<>>, expected_output |-> <<>>,
                differences |-> [kind |-> "unset", value |-> <<>>],
                verdict |-> ""]

\* ---- state at line 204: arguments parsed, problem and data loaded ----
Init ==
    /\ harness = HarnessIdle
    /\ pc = "configured"
    /\ restart \in BOOLEAN
    /\ nRestart \in NRestartArgs
    /\ tpfile \in TpFiles
    /\ distribution \in PdfArgs
    /\ number_of_equations \in 1..MaxEq
    /\ observed_trajectories = ObservedData
    /\ param = <<>> /\ initcond = <<>> /\ vary = <<>> /\ varyic = <<>> /\ limits = <<>>
    /\ parsed = NoParse
    /\ slices = <<>>
    /\ all_params = <<>>
    /\ idx = 1
    /\ initcond_full = <<>>
    /\ restart_results = <<>>
    /\ hypercube_calls = <<>>
    /\ optimiser_calls = <<>>
    /\ writer_calls = <<>>
    /\ log = <<>>
    /\ printed = <<>>
    /\ exit_status = <<>>

\* ---- line 205: paramtime returns ----
ParamtimeReturns ==
    /\ pc = "configured"
    /\ \E np \in 1..MaxParams, k \in 1..MaxEq, base \in ICBases :
       \E vy \in [1..np -> BOOLEAN], vyic \in [1..k -> BOOLEAN] :
          /\ param' = [i \in 1..np |-> 30 + i]
          /\ initcond' = [i \in 1..k |-> base + i]
          /\ vary' = vy
          /\ varyic' = vyic
          /\ limits' = <<0, 99>>
          /\ parsed' = [outcome |-> "returned", param |-> param', initcond |-> initcond', vary |-> vary',
                        varyic |-> varyic', limits |-> limits']
    /\ pc' = "parsed"
    /\ UNCHANGED <<config, slices, all_params, idx, initcond_full, restart_results,
                   hypercube_calls, optimiser_calls, writer_calls, log, printed,
                   exit_status>>

\* variant: the handler prints the message but does not exit
ParamtimeValueError_noexit ==
    /\ pc = "configured"
    /\ printed' = Append(printed, [msg |-> "is not in correct format", file |-> tpfile])
    /\ pc' = "parsed"
    /\ parsed' = [parsed EXCEPT !.outcome = "ValueError"]
    /\ UNCHANGED <<config, param, initcond, vary, varyic, limits, slices, all_params, idx,
                   initcond_full, restart_results, hypercube_calls, optimiser_calls,
                   writer_calls, log, exit_status>>

\* ---- lines 206-209: paramtime raises ValueError ----
ParamtimeValueError ==
    /\ pc = "configured"
    /\ printed' = Append(printed, [msg |-> "is not in correct format", file |-> tpfile])
    /\ exit_status' = <<1>>
    /\ pc' = "exit"
    /\ parsed' = [parsed EXCEPT !.outcome = "ValueError"]
    /\ UNCHANGED <<config, param, initcond, vary, varyic, limits, slices, all_params, idx, initcond_full,
                   restart_results, hypercube_calls, optimiser_calls, writer_calls, log>>

\* variant: the sampler is used whenever more than one restart is asked for
UseSampler_byCount == restart \/ (nRestart.int /\ nRestart.val > 1)

\* ---- line 210: if restart ----
UseSampler == restart

\* a point returned by hypercube: one value per dimension of the ranges
HypercubePoint(j, d, off) == [i \in 1..d |-> 100 * j + 10 * off + i]

\* an uncaught exception: traceback, interpreter exits with status 1
Crash ==
    /\ pc' = "crash"
    /\ exit_status' = <<1>>

\* ---- line 211: int(nRestart) raises ValueError ----
NRestartNotInteger ==
    /\ pc = "parsed"
    /\ UseSampler
    /\ ~nRestart.int
    /\ Crash
    /\ UNCHANGED <<config, inputs, slices, all_params, idx, initcond_full,
                   restart_results, hypercube_calls, optimiser_calls, writer_calls,
                   log, printed>>

\* ---- lines 211-213: hypercube returns n points, each is split ----
SampleStartsWith(n, pts) ==
    /\ hypercube_calls' = Append(hypercube_calls,
                                 [n |-> n, ranges |-> param \o initcond,
                                  initcond_len |-> Len(initcond), result |-> pts])
    /\ slices' = [j \in 1..Len(pts) |-> SplitPoint(pts[j], Len(param))]
    /\ all_params' = [j \in 1..Len(pts) |-> <<j, j>>]
    /\ log' = Append(log, "sample")
    /\ pc' = "loop"
    /\ UNCHANGED <<config, inputs, idx, initcond_full, restart_results,
                   optimiser_calls, writer_calls, printed, exit_status>>

SampleStarts ==
    /\ pc = "parsed"
    /\ UseSampler
    /\ nRestart.int
    /\ nRestart.val >= 1
    /\ \E off \in SampleOffsets :
          SampleStartsWith(nRestart.val,
                           [j \in 1..nRestart.val |->
                               HypercubePoint(j, Len(param) + Len(initcond), off)])

\* hypercube called with n <= 0: it returns no point ...
HypercubeReturnsEmpty ==
    /\ pc = "parsed"
    /\ UseSampler
    /\ nRestart.int
    /\ nRestart.val <= 0
    /\ SampleStartsWith(nRestart.val, <<>>)

\* ... or it raises
HypercubeRaises ==
    /\ pc = "parsed"
    /\ UseSampler
    /\ nRestart.int
    /\ nRestart.val <= 0
    /\ hypercube_calls' = Append(hypercube_calls,
                                 [n |-> nRestart.val, ranges |-> param \o initcond,
                                  initcond_len |-> Len(initcond), result |-> <<>>])
    /\ log' = Append(log, "sample")
    /\ Crash
    /\ UNCHANGED <<config, inputs, slices, all_params, idx, initcond_full,
                   restart_results, optimiser_calls, writer_calls, printed>>

\* ---- line 215: the single start is the parsed lists themselves ----
SingleStart ==
    /\ pc = "parsed"
    /\ ~UseSampler
    /\ all_params' = << <<ParsedRef, ParsedRef>> >>
    /\ pc' = "loop"
    /\ UNCHANGED <<config, inputs, slices, idx, initcond_full, restart_results,
                   hypercube_calls, optimiser_calls, writer_calls, log, printed,
                   exit_status>>

\* ---- lines 218-229: one iteration of the loop, up to the optimiser ----
param_n == DerefParam(all_params[idx][1])
initcond_n == DerefInitcond(all_params[idx][2])
NeedsPadding == Len(initcond_n) # number_of_equations
diff == number_of_equations - Len(initcond_n)
PaddedInitcond == IF NeedsPadding THEN PadList(initcond_n, 0, diff) ELSE initcond_n
PaddedVaryic == IF NeedsPadding THEN PadList(varyic, FALSE, diff) ELSE varyic

\* the in-place effects of lines 224-226 on the list objects
PadInPlace ==
    /\ IF all_params[idx][2] = ParsedRef
       THEN /\ initcond' = PaddedInitcond
            /\ slices' = slices
       ELSE /\ slices' = [slices EXCEPT ![all_params[idx][2]].ic = PaddedInitcond]
            /\ initcond' = initcond
    /\ varyic' = PaddedVaryic
    /\ initcond_full' = IF NeedsPadding THEN <<all_params[idx][2]>> ELSE initcond_full

\* line 231: distribution if distribution else 'sum_of_squares'
optimiser_method == IF distribution # "" THEN distribution ELSE "sum_of_squares"

\* the arguments of ParameterInference (lines 232-236)
OptimiserCall(raised, result) ==
    [start |-> idx,
     params_with_variability |-> Zip(param_n, vary),
     initcond_with_variability |-> Zip(PaddedInitcond, PaddedVaryic),
     limits |-> limits,
     observed_trajectories |-> observed_trajectories,
     method |-> optimiser_method,
     raised |-> raised,
     result |-> result]

\* for param_n, initcond_n in all_params
InLoop == pc = "loop" /\ idx <= Len(all_params)
\* the for loop of line 218 has consumed all of all_params
LoopExhausted == pc = "loop" /\ idx > Len(all_params)

\* ---- lines 218-239: the optimiser returns a result ----
OptimiserReturns ==
    /\ InLoop
    /\ PadInPlace
    /\ \E obj \in ObjVals :
          /\ optimiser_calls' = Append(optimiser_calls,
                                       OptimiserCall(FALSE, << <<"fitted", obj>> >>))
          /\ restart_results' = Append(restart_results,
                                       << <<"fitted", obj>>, observed_trajectories,
                                          all_params[idx][1], all_params[idx][2] >>)
    /\ idx' = idx + 1
    /\ log' = Append(log, "optimise")
    /\ UNCHANGED <<pc, config, param, vary, limits, parsed, all_params,
                   hypercube_calls, writer_calls, printed, exit_status>>

\* ---- lines 218-237: ParameterInference(...) or infer() raises ----
OptimiserRaises ==
    /\ InLoop
    /\ PadInPlace
    /\ optimiser_calls' = Append(optimiser_calls, OptimiserCall(TRUE, <<>>))
    /\ log' = Append(log, "optimise")
    /\ Crash
    /\ UNCHANGED <<config, param, vary, limits, parsed, all_params, idx,
                   restart_results, hypercube_calls, writer_calls, printed>>

\* ---- line 241: restart_results.sort(...) ----
Rank ==
    /\ LoopExhausted
    /\ restart_results' = SortByObjective(restart_results)
    /\ log' = Append(log, "sort")
    /\ pc' = "ranked"
    /\ UNCHANGED <<config, inputs, slices, all_params, idx, initcond_full,
                   hypercube_calls, optimiser_calls, writer_calls, printed, exit_status>>

\* ---- line 244: write_inference_results(...) ----
WriteResults ==
    /\ pc = "ranked"
    /\ initcond_full # <<>>
    /\ writer_calls' = Append(writer_calls,
                              [restart_results |-> restart_results,
                               vary |-> vary,
                               initcond_full |-> DerefInitcond(initcond_full[1]),
                               varyic |-> varyic])
    /\ log' = Append(log, "write")
    /\ pc' = "done"
    /\ exit_status' = <<0>>
    /\ UNCHANGED <<config, inputs, slices, all_params, idx, initcond_full,
                   restart_results, hypercube_calls, optimiser_calls, printed>>

\* ---- line 244: the name initcond_full was never bound: NameError ----
WriteNameError ==
    /\ pc = "ranked"
    /\ initcond_full = <<>>
    /\ Crash
    /\ UNCHANGED <<config, inputs, slices, all_params, idx, initcond_full,
                   restart_results, hypercube_calls, optimiser_calls, writer_calls,
                   log, printed>>

Next ==
    \/ ParamtimeReturns
    \/ ParamtimeValueError
    \/ NRestartNotInteger
    \/ SampleStarts
    \/ HypercubeReturnsEmpty
    \/ HypercubeRaises
    \/ SingleStart
    \/ OptimiserReturns
    \/ OptimiserRaises
    \/ Rank
    \/ WriteResults
    \/ WriteNameError

Spec == Init /\ [][Next]_vars

Terminal == pc \in {"done", "exit", "crash"}
Parsed == parsed.outcome = "returned"
TypeOK ==
    /\ pc \in {"configured", "parsed", "loop", "ranked", "done", "exit", "crash"}
    /\ Len(exit_status) <= 1
    /\ Terminal <=> exit_status # <<>>

\* ------------------------------------------------------------------------
\* regression_tests.py: compare_tsv_with_float_epsilon and its use by main()
\* A text is modelled as its lines (splitlines), a line as its columns
\* (split on tab); a column is one of a few texts.
\* ------------------------------------------------------------------------
TsvColumns == {"1.0", "1.0000005", "1.000002", "abc"}
TsvLinesOver(cols) == UNION {[1..n -> cols] : n \in 1..MaxTsvCols}
TsvTextsOver(cols) == UNION {[1..n -> TsvLinesOver(cols)] : n \in 0..MaxTsvLines}

\* epsilon=1e-6 (line 158), in units of 1e-7
Epsilon == 10

\* float(column) (line 185): the value in units of 1e-7; "abc" raises ValueError
IsFloat(text) == text \in {"1.0", "1.0000005", "1.000002"}
Float(text) ==
    CASE text = "1.0" -> 10000000
      [] text = "1.0000005" -> 10000005
      [] text = "1.000002" -> 10000020
Abs(x) == IF x < 0 THEN 0 - x ELSE x

\* lines 181-194: the scan of the zipped columns from position j; FALSE at the
\* first column that is unequal as text and either not a float or further
\* than epsilon away
RECURSIVE ColumnsEqualFrom(_, _, _)
ColumnsEqualFrom(ocols, ecols, j) ==
    IF j > Min(Len(ocols), Len(ecols)) THEN TRUE
    ELSE IF ocols[j] = ecols[j] THEN ColumnsEqualFrom(ocols, ecols, j + 1)
    ELSE IF ~(IsFloat(ocols[j]) /\ IsFloat(ecols[j])) THEN FALSE
    ELSE IF Abs(Float(ocols[j]) - Float(ecols[j])) > Epsilon THEN FALSE
    ELSE ColumnsEqualFrom(ocols, ecols, j + 1)

\* lines 163-198: the local list differences after the loop over zipped lines
RECURSIVE LoopDifferences(_, _, _, _)
LoopDifferences(olines, elines, i, differences) ==
    IF i > Min(Len(olines), Len(elines)) THEN differences
    ELSE IF olines[i] = elines[i]
         THEN LoopDifferences(olines, elines, i + 1, differences)
    ELSE IF ColumnsEqualFrom(olines[i], elines[i], 1)
         THEN LoopDifferences(olines, elines, i + 1, differences)
    ELSE LoopDifferences(olines, elines, i + 1,
                         differences \o <<olines[i], elines[i]>>)

\* lines 158-199: the value the function returns.  Line 161 returns []; after
\* the loop the function ends without a return statement, so the caller gets
\* None and the local list is dropped.
compare_tsv_with_float_epsilon(output, expected_output) ==
    IF output = expected_output THEN [kind |-> "list", value |-> <<>>]
    ELSE LET differences == LoopDifferences(output, expected_output, 1, <<>>)
         IN  [kind |-> "None", value |-> <<>>]

\* lines 150-156: [] for equal texts, else the generator made by difflib.ndiff
\* (its items, one or more per line of either text, are not modelled)
diff_comparison(output, expected_output) ==
    IF output = expected_output THEN [kind |-> "list", value |-> <<>>]
    ELSE [kind |-> "generator", value |-> <<output, expected_output>>]

\* the tests of generate_tests_from_options and their comparison function
\* (lines 212, 221, 237, 249)
TestKinds == {"mea", "lna", "simulation", "inference"}
comparison_function(test, output, expected_output) ==
    IF test = "simulation"
    THEN compare_tsv_with_float_epsilon(output, expected_output)
    ELSE diff_comparison(output, expected_output)

\* not differences (line 308): None and the empty list are false, a
\* generator object is true
IsFalsy(ret) == ret.kind = "None" \/ (ret.kind = "list" /\ ret.value = <<>>)

\* ---- a simulation test has run; output and reference are on disk ----
InitTsv ==
    /\ pc = "idle"
    /\ restart = FALSE
    /\ nRestart = [int |-> TRUE, val |-> 1]
    /\ tpfile = "paramtime.txt"
    /\ distribution = ""
    /\ number_of_equations = 1
    /\ observed_trajectories = ObservedData
    /\ param = <<>> /\ initcond = <<>> /\ vary = <<>> /\ varyic = <<>> /\ limits = <<>>
    /\ parsed = NoParse
    /\ slices = <<>>
    /\ all_params = <<>>
    /\ idx = 1
    /\ initcond_full = <<>>
    /\ restart_results = <<>>
    /\ hypercube_calls = <<>>
    /\ optimiser_calls = <<>>
    /\ writer_calls = <<>>
    /\ log = <<>>
    /\ printed = <<>>
    /\ exit_status = <<>>
    /\ \E t \in TestKinds :
       \E o \in TsvTextsOver(TsvColumns), e \in TsvTextsOver({"1.0"}) :
          harness = [HarnessIdle EXCEPT !.pc = "ran", !.test = t, !.output = o,
                                        !.expected_output = e]

run_vars == <<pc, restart, nRestart, tpfile, distribution, number_of_equations,
              observed_trajectories, param, initcond, vary, varyic, limits, parsed,
              slices, all_params, idx, initcond_full, restart_results,
              hypercube_calls, optimiser_calls, writer_calls, log, printed,
              exit_status>>

\* ---- lines 131-133, 307: test.compare_outputs() ----
CompareOutputs ==
    /\ harness.pc = "ran"
    /\ harness' = [harness EXCEPT
                      !.pc = "compared",
                      !.differences = comparison_function(
                                         harness.test, harness.output,
                                         harness.expected_output)]
    /\ UNCHANGED run_vars

\* ---- lines 308-310: if not differences: print "> ALL OK" ----
ReportAllOk ==
    /\ harness.pc = "compared"
    /\ IsFalsy(harness.differences)
    /\ harness' = [harness EXCEPT !.pc = "reported", !.verdict = "ALL OK"]
    /\ UNCHANGED run_vars

\* ---- lines 312-323: the differences are reported, the test has failed ----
ReportMismatch ==
    /\ harness.pc = "compared"
    /\ ~IsFalsy(harness.differences)
    /\ harness' = [harness EXCEPT !.pc = "reported", !.verdict = "Output Mismatch"]
    /\ UNCHANGED run_vars

NextTsv ==
    \/ CompareOutputs
    \/ ReportAllOk
    \/ ReportMismatch

SpecTsv == InitTsv /\ [][NextTsv]_vars

\* ------------------------------------------------------------------------
\* Properties
\* ------------------------------------------------------------------------
Range(f) == {f[i] : i \in DOMAIN f}
Values(pairs) == [i \in 1..Len(pairs) |-> pairs[i][1]]
Flags(pairs) == [i \in 1..Len(pairs) |-> pairs[i][2]]
NumStarts == Len(all_params)
Sorted == \E i \in 1..Len(log) : log[i] = "sort"

\* the initial-condition values of start j as submitted, before any padding
StartInitcond(j) ==
    IF all_params[j][2] = ParsedRef THEN parsed.initcond
    ELSE SubSeq(hypercube_calls[1].result[j], Len(parsed.param) + 1,
                Len(hypercube_calls[1].result[j]))
StartParam(j) ==
    IF all_params[j][1] = ParsedRef THEN parsed.param
    ELSE SubSeq(hypercube_calls[1].result[j], 1, Len(parsed.param))

\* C1: with N >= 2 starting points, when the optimiser raises for some
\* starts and returns for others, the run still optimises every start and
\* ends in Reported (the writer is called with the surviving results).
C1_LocalFailureNeverAborts ==
    (/\ Terminal
     /\ NumStarts >= 2
     /\ \E c \in Range(optimiser_calls) : c.raised
     /\ \E c \in Range(optimiser_calls) : ~c.raised)
    => /\ pc = "done"
       /\ Len(optimiser_calls) = NumStarts
       /\ Len(writer_calls) = 1
       /\ writer_calls[1].restart_results # <<>>

\* C2: once ranked, restart_results holds exactly the collected results,
\* ascending by objective, the minimal objective first, and entries of equal
\* objective in the order their starting points were submitted.
C2_RankingStableMonotone ==
    Sorted =>
       /\ Len(restart_results) = Len(optimiser_calls)
       /\ \A c \in 1..Len(optimiser_calls) :
             \E i \in 1..Len(restart_results) :
                /\ restart_results[i][1] = optimiser_calls[c].result[1]
                /\ restart_results[i][3] = all_params[c][1]
       /\ \A i \in 1..(Len(restart_results) - 1) :
             SortKey(restart_results[i]) <= SortKey(restart_results[i + 1])
       /\ \A c \in 1..Len(optimiser_calls) :
             SortKey(restart_results[1]) <= optimiser_calls[c].result[1][2]
       /\ \A i, j \in 1..Len(restart_results) :
             (i < j /\ SortKey(restart_results[i]) = SortKey(restart_results[j]))
                => restart_results[i][3] < restart_results[j][3]

\* C2 witness: a ranked multi-start run whose two best results tie
C2_Witness ==
    /\ Sorted
    /\ Len(restart_results) >= 2
    /\ SortKey(restart_results[1]) = SortKey(restart_results[2])

\* C3: every start whose initial-condition vector is shorter than
\* number_of_equations is handed to the optimiser with exactly
\* number_of_equations (value, is_variable) pairs: its own values with the
\* parsed flags, then (0, False) entries.
C3_PaddingOfEveryStart ==
    \A c \in 1..Len(optimiser_calls) :
       LET call == optimiser_calls[c]
           start_ic == StartInitcond(call.start)
           k == Len(start_ic)
       IN  k < number_of_equations =>
              /\ Len(call.initcond_with_variability) = number_of_equations
              /\ \A i \in 1..k :
                    call.initcond_with_variability[i] = <<start_ic[i], parsed.varyic[i]>>
              /\ \A i \in (k + 1)..number_of_equations :
                    call.initcond_with_variability[i] = <<0, FALSE>>

\* C3 witness: a second start of a multi-start sweep was padded
C3_Witness ==
    /\ Len(optimiser_calls) >= 2
    /\ Len(StartInitcond(2)) < number_of_equations
    /\ \E i \in 1..Len(parsed.varyic) : parsed.varyic[i]

\* C4: with more parsed initial conditions than equations the run fails
\* before any optimiser is invoked and the writer is never called.
C4_TooManyInitcondFails ==
    (Parsed /\ Len(parsed.initcond) > number_of_equations)
    => /\ optimiser_calls = <<>>
       /\ writer_calls = <<>>
       /\ pc # "done"

\* the values handed to the optimiser by a call are those of the parsed spec
\* (the initial conditions followed by nothing but zero padding)
StartIsParsedSpec(call) ==
    /\ Values(call.params_with_variability) = parsed.param
    /\ Len(call.initcond_with_variability) >= Len(parsed.initcond)
    /\ \A i \in 1..Len(call.initcond_with_variability) :
          call.initcond_with_variability[i][1] =
             IF i <= Len(parsed.initcond) THEN parsed.initcond[i] ELSE 0

\* C5 as stated: a run whose number of restarts is 1, with or without
\* --restart, never calls hypercube and starts from the parsed values.
C5_OneRestartNoSampling ==
    (nRestart.int /\ nRestart.val = 1)
    => /\ hypercube_calls = <<>>
       /\ \A c \in Range(optimiser_calls) : StartIsParsedSpec(c)

\* C5 amended: a run without --restart never calls hypercube, has the parsed
\* lists as its single starting point whatever --nRestart says, and hands
\* the parsed values (zero-padded initial conditions) to the optimiser.
C5_NoRestartFlagNoSampling ==
    ~restart
    => /\ hypercube_calls = <<>>
       /\ all_params \in {<<>>, << <<ParsedRef, ParsedRef>> >>}
       /\ Len(optimiser_calls) <= 1
       /\ \A c \in Range(optimiser_calls) : StartIsParsedSpec(c)

\* C5 witness: a run without --restart and with --nRestart=2 has optimised
\* its start
C5_Witness ==
    /\ ~restart
    /\ nRestart.int /\ nRestart.val > 1
    /\ Len(optimiser_calls) = 1
    /\ ~optimiser_calls[1].raised

\* C6: the writer is called only with a finite best objective; when no
\* start produced a finite objective the run ends without calling the
\* writer and with a non-zero exit status.
C6_WriterOnlyWithFiniteBest ==
    /\ \A w \in Range(writer_calls) :
          /\ w.restart_results # <<>>
          /\ Finite(SortKey(w.restart_results[1]))
    /\ (Terminal /\ \A r \in Range(restart_results) : ~Finite(SortKey(r)))
          => /\ writer_calls = <<>>
             /\ exit_status # <<0>>

\* C7: once parsed, param, initcond, vary, varyic, the bounds and the
\* observed data keep the contents the parsers returned.
C7_InputsNeverWritten ==
    Parsed
    => /\ param = parsed.param
       /\ initcond = parsed.initcond
       /\ vary = parsed.vary
       /\ varyic = parsed.varyic
       /\ limits = parsed.limits
       /\ observed_trajectories = ObservedData

\* position of a logged step in Sampling -> Optimizing -> Ranked -> Reported
PhaseOf(step) ==
    CASE step = "sample" -> 1
      [] step = "optimise" -> 2
      [] step = "sort" -> 3
      [] step = "write" -> 4
CountOf(step) == Cardinality({i \in 1..Len(log) : log[i] = step})

\* C8: the steps of a run occur in the order sample, optimise (once per
\* starting point, in submission order, each start consumed by its own
\* invocation), sort (only after the last invocation returned), write
\* (after the sort); a run whose N invocations have all returned ends in
\* Reported with the writer called exactly once.
C8_PhaseOrdering ==
    /\ \A i, j \in 1..Len(log) : i < j => PhaseOf(log[i]) <= PhaseOf(log[j])
    /\ CountOf("sample") <= 1 /\ CountOf("sort") <= 1 /\ CountOf("write") <= 1
    /\ CountOf("sample") = Len(hypercube_calls)
    /\ CountOf("optimise") = Len(optimiser_calls)
    /\ CountOf("write") = Len(writer_calls)
    /\ Len(optimiser_calls) <= NumStarts
    /\ \A c \in 1..Len(optimiser_calls) :
          /\ optimiser_calls[c].start = c
          /\ Values(optimiser_calls[c].params_with_variability) = StartParam(c)
          /\ \A i \in 1..Len(StartInitcond(c)) :
                optimiser_calls[c].initcond_with_variability[i][1] = StartInitcond(c)[i]
    /\ (restart /\ optimiser_calls # <<>>)
          => (log[1] = "sample" /\ NumStarts = nRestart.val)
    /\ ~restart => (CountOf("sample") = 0 /\ NumStarts <= 1)
    /\ Sorted => /\ Len(optimiser_calls) = NumStarts
                 /\ \A c \in Range(optimiser_calls) : ~c.raised
    /\ writer_calls # <<>> => Sorted
    /\ pc = "done" => (Len(writer_calls) = 1 /\ Len(optimiser_calls) = NumStarts)
    /\ (/\ Terminal
        /\ NumStarts >= 1
        /\ Len(optimiser_calls) = NumStarts
        /\ \A c \in Range(optimiser_calls) : ~c.raised)
          => (pc = "done" /\ Sorted /\ Len(writer_calls) = 1)

\* C9: when initial conditions need padding, the list handed to hypercube
\* already has number_of_equations initial conditions and every sampled
\* point splits into an initial-condition vector of that length.
C9_PaddingBeforeSampling ==
    \A h \in Range(hypercube_calls) :
       Len(parsed.initcond) < number_of_equations
       => /\ h.initcond_len = number_of_equations
          /\ \A j \in 1..Len(h.result) :
                Len(SplitPoint(h.result[j], Len(parsed.param)).ic) = number_of_equations

\* C10: when paramtime raises ValueError the driver prints one message that
\* names the timeparam file and exits with status 1; hypercube, the
\* optimiser and the writer are never called in that run.
C10_ParamtimeValueErrorAborts ==
    parsed.outcome = "ValueError"
    => /\ pc = "exit"
       /\ exit_status = <<1>>
       /\ Len(printed) = 1
       /\ printed[1].file = tpfile
       /\ hypercube_calls = <<>>
       /\ optimiser_calls = <<>>
       /\ writer_calls = <<>>

\* C10 witness: paramtime raised in a run that asked for random restarts
C10_Witness ==
    /\ parsed.outcome = "ValueError"
    /\ restart
    /\ nRestart.int /\ nRestart.val >= 2

\* C12: whenever the writer is called for a run whose parsed initial
\* conditions number k <= number_of_equations, the varyic mask handed to it
\* is the parsed k-entry mask followed by number_of_equations - k False
\* entries, whatever the number of starting points.
C12_WriterVaryicLength ==
    \A w \in Range(writer_calls) :
       Len(parsed.initcond) <= number_of_equations
       => /\ Len(w.varyic) = number_of_equations
          /\ w.varyic = parsed.varyic \o
                        Repeat(FALSE, number_of_equations - Len(parsed.initcond))

\* C13: a run whose parsed initial conditions already number
\* number_of_equations and whose optimisations all returned ends in Reported:
\* initcond_full is bound and the writer has been called.
C13_FullInitcondReachesReported ==
    (/\ Terminal
     /\ Parsed
     /\ Len(parsed.initcond) = number_of_equations
     /\ NumStarts >= 1
     /\ Len(restart_results) = NumStarts)
    => /\ initcond_full # <<>>
       /\ writer_calls # <<>>
       /\ pc = "done"

\* C11: a run that uses an invalid restart count (--restart with a
\* non-integer, zero or negative --nRestart) or that names an unknown
\* objective kind fails before any optimiser is constructed and before the
\* writer is called.
C11_InvalidConfigurationIsFatal ==
    (\/ (restart /\ (~nRestart.int \/ nRestart.val <= 0))
     \/ optimiser_method \notin RecognisedMethods)
    => /\ optimiser_calls = <<>>
       /\ writer_calls = <<>>
       /\ Terminal => exit_status # <<0>>

\* every pair of corresponding columns is equal as text or, as floats,
\* at most epsilon apart
ColumnsAgree(a, b) ==
    a = b \/ (IsFloat(a) /\ IsFloat(b) /\ Abs(Float(a) - Float(b)) <= Epsilon)
LinesAgree(ol, el) ==
    Len(ol) = Len(el) /\ \A j \in 1..Len(ol) : ColumnsAgree(ol[j], el[j])
TextsAgree(o, e) ==
    Len(o) = Len(e) /\ \A i \in 1..Len(o) : LinesAgree(o[i], e[i])
SameShape(o, e) ==
    Len(o) = Len(e) /\ \A i \in 1..Len(o) : Len(o[i]) = Len(e[i])

\* C14: for a simulation test whose output and reference have the same
\* lines and columns, the comparison returns nothing to report exactly when
\* all corresponding columns agree; otherwise it returns a non-empty list
\* holding each disagreeing output line and reference line, and the runner
\* does not report the test as ALL OK.
C14_TsvComparisonDetectsDifferences ==
    (/\ harness.test = "simulation"
     /\ harness.pc \in {"compared", "reported"}
     /\ SameShape(harness.output, harness.expected_output))
    => LET o == harness.output
           e == harness.expected_output
           ret == harness.differences
       IN  /\ TextsAgree(o, e) => IsFalsy(ret)
           /\ ~TextsAgree(o, e) =>
                 /\ ret.kind = "list"
                 /\ ret.value # <<>>
                 /\ \A i \in 1..Len(o) :
                       ~LinesAgree(o[i], e[i]) =>
                          \E n \in 1..(Len(ret.value) - 1) :
                             ret.value[n] = o[i] /\ ret.value[n + 1] = e[i]
           /\ harness.pc = "reported" =>
                 (harness.verdict = "ALL OK" <=> TextsAgree(o, e))
====
